---- MODULE Spec2Model ----
(***************************************************************************)
(* Model of the multiple-hypotheses notebook of ultrack-i2k2023: the       *)
(* parameter-search loop that collects one label volume per gamma, and the *)
(* labels_to_edges combination of label volumes into a detection map and a *)
(* contour map.                                                            *)
(*                                                                         *)
(* labels_to_edges is imported from the ultrack library; the notebooks     *)
(* only call it and describe its result (detection = maximum of the binary *)
(* masks, contours = average of the binary contours).  Its remaining       *)
(* behaviour (boundary mask, smoothing, argument validation) is modelled   *)
(* from the specification of the combiner.                                 *)
(*                                                                         *)
(* track, to_ctc, score, to_tracks_layer and tracks_to_zarr are library    *)
(* calls too.  A tracking result is identified by the inputs of the run    *)
(* that produced it, and an export or a score by the result it was made    *)
(* from.  What track does with a negative sigma is not described anywhere, *)
(* so the runs that pass sigma to track start with sigma >= 0.             *)
(*                                                                         *)
(* Numbers: a contour map is a pair (num, den): the value at voxel p is    *)
(* num[p] / den.  The Gaussian kernel has real weights; it is modelled by  *)
(* the normalised integer kernel Binomial(2*sigma, k) / 4^sigma, which is  *)
(* symmetric, non-negative, separable and sums to one like the Gaussian.   *)
(***************************************************************************)
EXTENDS Integers, Sequences, FiniteSets

\* the number of entries of gammas; the loop is run over each non-empty
\* prefix of gammas
NumGammas == 4

\* ------------------------------------------------------------------ bounds
MaxLabel == 1    \* labels of the exhaustively enumerated volumes: 0..MaxLabel
MaxSigma == 1    \* sigma ranges over -1..MaxSigma

\* ----------------------------------------------------------- label volumes
\* A shape is <<T, H, W>>: T frames of H x W voxels.
Voxels(shape) == (1..shape[1]) \X (1..shape[2]) \X (1..shape[3])

\* A label volume: its shape and a label per voxel (0 is background).
Volume(shape, lab) == [shape |-> shape, lab |-> lab]

GenShape == <<1, 1, 2>>

\* every label volume of shape GenShape with labels in 0..MaxLabel
GenVolumes == { Volume(GenShape, l) : l \in [Voxels(GenShape) -> 0..MaxLabel] }

\* the (4,4) example: a 2x2 square of label 1 at the top-left corner
Square == Volume(<<1, 4, 4>>,
                 [p \in Voxels(<<1, 4, 4>>) |-> IF p[2] <= 2 /\ p[3] <= 2 THEN 1 ELSE 0])

\* a (4,4) volume with two touching objects, labels 1 and 2, in the top rows
TwoCells == Volume(<<1, 4, 4>>,
                   [p \in Voxels(<<1, 4, 4>>) |->
                       IF p[2] > 2 THEN 0 ELSE IF p[3] <= 2 THEN 1 ELSE 2])

\* the shape-mismatch example: an empty (5,5) and an empty (5,6) volume
Zero55 == Volume(<<1, 5, 5>>, [p \in Voxels(<<1, 5, 5>>) |-> 0])
Zero56 == Volume(<<1, 5, 6>>, [p \in Voxels(<<1, 5, 6>>) |-> 0])

\* two frames: an object that is present in frame 1 and gone in frame 2,
\* and an object that keeps its place but changes its label
Vanishing == Volume(<<2, 1, 2>>,
                    [p \in Voxels(<<2, 1, 2>>) |-> IF p[1] = 1 /\ p[3] = 1 THEN 1 ELSE 0])
Relabelled == Volume(<<2, 1, 2>>, [p \in Voxels(<<2, 1, 2>>) |-> p[1]])

\* what the segmentation step may hand to the notebook
LabelVolumes == GenVolumes \cup {Square, TwoCells, Zero55, Zero56, Vanishing, Relabelled}

Sigmas == (-1)..MaxSigma

\* ------------------------------------------------------------ arithmetic
RECURSIVE SumSeq(_)
SumSeq(s) == IF s = <<>> THEN 0 ELSE Head(s) + SumSeq(Tail(s))

RECURSIVE MaxSeq(_)
MaxSeq(s) == IF Len(s) = 1 THEN Head(s)
             ELSE LET m == MaxSeq(Tail(s)) IN IF Head(s) >= m THEN Head(s) ELSE m

RECURSIVE Binomial(_, _)
Binomial(n, k) == IF k = 0 \/ k = n THEN 1 ELSE Binomial(n - 1, k - 1) + Binomial(n - 1, k)

RECURSIVE Pow4(_)
Pow4(n) == IF n = 0 THEN 1 ELSE 4 * Pow4(n - 1)

\* ------------------------------------------------- labels_to_edges, parts
NoMap == <<>>

\* binary mask of one label volume: 1 where the label is > 0
Foreground(v) == [p \in Voxels(v.shape) |-> IF v.lab[p] > 0 THEN 1 ELSE 0]

\* faulty variants of DetectionMap: the masks combined with "and" instead of
\* "or"; the masks added up; only the last mask kept; only the first frame
\* of the volume processed
DetectionMapMin(labels) ==
    [p \in Voxels(labels[1].shape) |->
        -MaxSeq([i \in 1..Len(labels) |-> -Foreground(labels[i])[p]])]

DetectionMapSum(labels) ==
    [p \in Voxels(labels[1].shape) |->
        SumSeq([i \in 1..Len(labels) |-> Foreground(labels[i])[p]])]

DetectionMapLast(labels) == Foreground(labels[Len(labels)])

DetectionMapFirstFrame(labels) ==
    [p \in Voxels(<<1, labels[1].shape[2], labels[1].shape[3]>>) |->
        MaxSeq([i \in 1..Len(labels) |-> Foreground(labels[i])[p]])]

\* faulty variant of DetectionMap: the maximum also taken along the time axis
DetectionMapTimeProjected(labels) ==
    [p \in Voxels(labels[1].shape) |->
        MaxSeq([i \in 1..Len(labels) |->
            IF \E t \in 1..labels[i].shape[1] : labels[i].lab[<<t, p[2], p[3]>>] > 0
            THEN 1 ELSE 0])]

\* faulty variant of DetectionMap: the masks taken with >= 0, so background
\* counts as foreground
DetectionMapNonNegative(labels) ==
    [p \in Voxels(labels[1].shape) |->
        MaxSeq([i \in 1..Len(labels) |-> IF labels[i].lab[p] >= 0 THEN 1 ELSE 0])]

\* detection map: the maximum value between the binary masks of each label
DetectionMap(labels) ==
    LET masks == [i \in 1..Len(labels) |-> Foreground(labels[i])]
    IN  [p \in Voxels(labels[1].shape) |->
            MaxSeq([i \in 1..Len(labels) |-> masks[i][p]])]

\* face-adjacent neighbours of p along the spatial axes, in the same frame
Neighbours(shape, p) ==
    { q \in Voxels(shape) :
        /\ q[1] = p[1]
        /\ \/ q[3] = p[3] /\ (q[2] = p[2] + 1 \/ q[2] = p[2] - 1)
           \/ q[2] = p[2] /\ (q[3] = p[3] + 1 \/ q[3] = p[3] - 1) }

\* binary contours of one label volume: 1 where the label differs from the
\* label of at least one neighbour
BoundaryMask(v) ==
    [p \in Voxels(v.shape) |->
        IF \E q \in Neighbours(v.shape, p) : v.lab[q] # v.lab[p] THEN 1 ELSE 0]

\* kernel weight at offset d, and the denominator of the weights
KernelWeight(s, d) == Binomial(2 * s, d + s)
KernelDen(s) == Pow4(s)

\* p moved by d along a spatial axis (2 or 3)
Shift(p, axis, d) == [p EXCEPT ![axis] = @ + d]

\* convolution of m with the kernel along one spatial axis; voxels outside
\* the frame contribute nothing
SmoothAxis(m, shape, s, axis) ==
    [p \in Voxels(shape) |->
        SumSeq([k \in 1..(2 * s + 1) |->
            LET q == Shift(p, axis, k - 1 - s)
            IN  IF q \in Voxels(shape) THEN KernelWeight(s, k - 1 - s) * m[q] ELSE 0])]

\* boundary response of one label volume, as numerators over ResponseDen
Response(v, s) ==
    IF s > 0
    THEN LET mask == BoundaryMask(v)
             rows == SmoothAxis(mask, v.shape, s, 2)
         IN  SmoothAxis(rows, v.shape, s, 3)
    ELSE BoundaryMask(v)

ResponseDen(s) == IF s > 0 THEN KernelDen(s) * KernelDen(s) ELSE 1

\* faulty variant of ContourMap: the contours added up and never divided by
\* the number of label volumes
ContourMapSum(labels, s) ==
    [num |-> [p \in Voxels(labels[1].shape) |->
                 SumSeq([i \in 1..Len(labels) |-> Response(labels[i], s)[p]])],
     den |-> ResponseDen(s)]

\* contour map: the average of the (smoothed) binary contours of each label
ContourMap(labels, s) ==
    LET responses == [i \in 1..Len(labels) |-> Response(labels[i], s)]
    IN  [num |-> [p \in Voxels(labels[1].shape) |->
                     SumSeq([i \in 1..Len(labels) |-> responses[i][p]])],
         den |-> Len(labels) * ResponseDen(s)]

\* all label volumes have the shape of the first
SameShape(labels) == \A i \in 1..Len(labels) : labels[i].shape = labels[1].shape

\* faulty variant of Errors: sigma = 0 rejected together with the negatives
ErrorsNoZero(labels, s) ==
    (IF SameShape(labels) THEN {} ELSE {"ShapeMismatch"})
    \cup (IF s <= 0 THEN {"InvalidArgument"} ELSE {})

\* the errors a call with these arguments fails with (none: the call succeeds)
Errors(labels, s) ==
    (IF SameShape(labels) THEN {} ELSE {"ShapeMismatch"})
    \cup (IF s < 0 THEN {"InvalidArgument"} ELSE {})

\* ------------------------------------------------------------ the notebook
VARIABLES
    sigma,            \* smoothing scale, set once before the loop
    todo,             \* number of gammas the loop has still to visit
    all_labels,       \* the label volumes collected so far
    cellpose_labels,  \* the label volume of the current gamma
    pc,               \* the statement the notebook is at; "done" or "failed" at the end
    args,             \* label volumes passed to the latest labels_to_edges call
    raised,           \* error raised by the latest call, "none" otherwise
    detection,        \* notebook variable: the detection map
    contours,         \* notebook variable: the contour map
    notebook,         \* which of the two notebooks runs
    db,               \* the tracking result stored under config
    ctc,              \* the tracking result exported under each output path
    metrics,          \* the scores collected so far
    tracks_df,        \* the tracks exported by to_tracks_layer
    segments,         \* the segments exported by tracks_to_zarr
    image             \* the shape of the image, which every label volume gets

vars == <<sigma, todo, all_labels, cellpose_labels, pc, args, raised, detection, contours,
          notebook, db, ctc, metrics, tracks_df, segments, image>>

\* the shapes an image may have
Shapes == { v.shape : v \in LabelVolumes }

\* stands for "no image": the label volumes come from elsewhere, in any shape
AnyShape == <<>>

\* the two notebooks: the loop of multiple-labels.ipynb tracks with the labels
\* parameter, the loop of the other one with labels_to_edges
Notebooks == {"multiple-labels", "edges"}

\* no tracking result
NoRun == <<>>

\* output paths: i for the labels of the i-th gamma, 0 for the combined labels
Paths == 0..NumGammas

Start ==
    /\ sigma \in Sigmas
    /\ todo \in 1..NumGammas
    /\ all_labels = <<>>
    /\ cellpose_labels = NoMap
    /\ pc = "loop"
    /\ args = <<>>
    /\ raised = "none"
    /\ detection = NoMap
    /\ contours = NoMap
    /\ notebook \in Notebooks
    /\ notebook = "multiple-labels" => sigma >= 0
    /\ db = NoRun
    /\ ctc = [path \in Paths |-> NoRun]
    /\ metrics = <<>>
    /\ tracks_df = NoRun
    /\ segments = NoRun

\* the notebook: the label volumes are allocated with the shape of the image
Init == Start /\ image \in Shapes

\* a caller that collects label volumes of any shape
InitAnyShape == Start /\ image = AnyShape

\* faulty variant of LabelsToEdges: the outputs are cleared before the
\* arguments are validated, so a failing call destroys the earlier maps
LabelsToEdgesClobber(labels, next) ==
    /\ args' = labels
    /\ IF Errors(labels, sigma) = {}
       THEN /\ raised' = "none"
            /\ detection' = DetectionMap(labels)
            /\ contours' = ContourMap(labels, sigma)
            /\ pc' = next
       ELSE /\ raised' \in Errors(labels, sigma)
            /\ detection' = NoMap
            /\ contours' = NoMap
            /\ pc' = "failed"

\* detection, contours = labels_to_edges(labels, sigma=sigma), then go to next
LabelsToEdges(labels, next) ==
    /\ args' = labels
    /\ IF Errors(labels, sigma) = {}
       THEN /\ raised' = "none"
            /\ detection' = DetectionMap(labels)
            /\ contours' = ContourMap(labels, sigma)
            /\ pc' = next
       ELSE /\ raised' \in Errors(labels, sigma)
            /\ UNCHANGED <<detection, contours>>
            /\ pc' = "failed"

\* loop body, first half: segment the image with the next gamma and collect
\* the label volume
Predict ==
    /\ pc = "loop"
    /\ todo > 0
    /\ \E v \in LabelVolumes :
         /\ image = AnyShape \/ v.shape = image
         /\ cellpose_labels' = v
         /\ all_labels' = Append(all_labels, v)
    /\ pc' = "edges"
    /\ UNCHANGED <<sigma, todo, args, raised, detection, contours>>
    /\ UNCHANGED <<notebook, db, ctc, metrics, tracks_df, segments, image>>

\* loop body: detection and contours of the current label volume
EdgesOfCurrent ==
    /\ pc = "edges"
    /\ notebook = "edges"
    /\ LabelsToEdges(<<cellpose_labels>>, "track")
    /\ UNCHANGED <<sigma, todo, all_labels, cellpose_labels>>
    /\ UNCHANGED <<notebook, db, ctc, metrics, tracks_df, segments, image>>

\* loop body: track(config, labels=cellpose_labels, sigma=sigma, overwrite=True).
\* The tracker is a library call; its result is identified by what it was
\* given.
TrackLabels ==
    /\ pc = "edges"
    /\ notebook = "multiple-labels"
    /\ db' = [labels |-> cellpose_labels, sigma |-> sigma]
    /\ pc' = "ctc"
    /\ UNCHANGED <<sigma, todo, all_labels, cellpose_labels, args, raised, detection, contours>>
    /\ UNCHANGED <<notebook, ctc, metrics, tracks_df, segments, image>>

\* after the loop: detection and contours of all the collected label volumes
EdgesOfAll ==
    /\ pc = "loop"
    /\ todo = 0
    /\ LabelsToEdges(all_labels, "track_all")
    /\ UNCHANGED <<sigma, todo, all_labels, cellpose_labels>>
    /\ UNCHANGED <<notebook, db, ctc, metrics, tracks_df, segments, image>>

\* faulty variant of Track: a result already stored under config is kept, as
\* without overwrite
TrackKeepExisting ==
    /\ pc \in {"track", "track_all"}
    /\ db' = IF db = NoRun THEN [detection |-> detection, edges |-> contours] ELSE db
    /\ pc' = IF pc = "track" THEN "ctc" ELSE "ctc_all"
    /\ UNCHANGED <<sigma, todo, all_labels, cellpose_labels, args, raised, detection, contours>>
    /\ UNCHANGED <<notebook, ctc, metrics, tracks_df, segments, image>>

\* track(config, detection=detection, edges=contours, overwrite=True), in the
\* loop and after it: the result replaces the one stored under config
Track ==
    /\ pc \in {"track", "track_all"}
    /\ db' = [detection |-> detection, edges |-> contours]
    /\ pc' = IF pc = "track" THEN "ctc" ELSE "ctc_all"
    /\ UNCHANGED <<sigma, todo, all_labels, cellpose_labels, args, raised, detection, contours>>
    /\ UNCHANGED <<notebook, ctc, metrics, tracks_df, segments, image>>

\* the output path of the to_ctc and score calls the notebook is at
OutputPath == IF pc \in {"ctc", "score"} THEN Len(all_labels) ELSE 0

\* to_ctc(output_path, config, overwrite=True): the result stored under
\* config is written under the output path
ToCtc ==
    /\ pc \in {"ctc", "ctc_all"}
    /\ ctc' = [ctc EXCEPT ![OutputPath] = db]
    /\ pc' = IF pc = "ctc" THEN "score" ELSE "score_all"
    /\ UNCHANGED <<sigma, todo, all_labels, cellpose_labels, args, raised, detection, contours>>
    /\ UNCHANGED <<notebook, db, metrics, tracks_df, segments, image>>

\* metric = score(output_path); in the loop metric["gamma"] = gamma;
\* metrics.append(metric).  The score is identified by the result it was
\* computed from; the i-th gamma is identified by i.
Score ==
    /\ pc \in {"score", "score_all"}
    /\ metrics' = Append(metrics,
                         IF pc = "score"
                         THEN [run |-> ctc[OutputPath], gamma |-> Len(all_labels)]
                         ELSE [run |-> ctc[OutputPath]])
    /\ pc' = IF pc = "score" THEN "loop" ELSE "layer"
    /\ todo' = IF pc = "score" THEN todo - 1 ELSE todo
    /\ UNCHANGED <<sigma, all_labels, cellpose_labels, args, raised, detection, contours>>
    /\ UNCHANGED <<notebook, db, ctc, tracks_df, segments, image>>

\* tracks_df, graph = to_tracks_layer(config); segments = tracks_to_zarr(config, tracks_df)
ToTracksLayer ==
    /\ pc = "layer"
    /\ tracks_df' = db
    /\ segments' = db
    /\ pc' = "done"
    /\ UNCHANGED <<sigma, todo, all_labels, cellpose_labels, args, raised, detection, contours>>
    /\ UNCHANGED <<notebook, db, ctc, metrics, image>>

Next ==
    \/ Predict
    \/ EdgesOfCurrent
    \/ TrackLabels
    \/ EdgesOfAll
    \/ Track
    \/ ToCtc
    \/ Score
    \/ ToTracksLayer

Spec == Init /\ [][Next]_vars

SpecAnyShape == InitAnyShape /\ [][Next]_vars

\* ------------------------------------------------------------- properties
\* the notebook is at the statement after a successful labels_to_edges call:
\* detection and contours are its result for the arguments args
Returned == args # <<>> /\ raised = "none" /\ pc \in {"track", "track_all"}

\* the voxels of the arguments of the latest call
ArgVoxels == Voxels(args[1].shape)

\* label l at p differs from the label of a face-adjacent voxel of the frame
OnBoundary(v, p) ==
    \E axis \in {2, 3} : \E d \in {-1, 1} :
        /\ Shift(p, axis, d) \in Voxels(v.shape)
        /\ v.lab[Shift(p, axis, d)] # v.lab[p]

\* the sequence s with its elements at i and j exchanged
Swapped(s, i, j) == [s EXCEPT ![i] = s[j], ![j] = s[i]]

\* C1: for every non-empty sequence of same-shaped label volumes and every
\* sigma >= 0 the call succeeds and the detection map is 1 at a voxel if at
\* least one volume has a label > 0 there and 0 otherwise; for a single volume
\* it is that volume's binarized mask.
C1_DetectionIsUnionOfMasks ==
    /\ (args # <<>> /\ SameShape(args) /\ sigma >= 0) => raised = "none"
    /\ Returned =>
         /\ DOMAIN detection = ArgVoxels
         /\ \A p \in ArgVoxels :
              detection[p] = IF \E i \in 1..Len(args) : args[i].lab[p] > 0 THEN 1 ELSE 0
         /\ Len(args) = 1 =>
              detection = [p \in ArgVoxels |-> IF args[1].lab[p] > 0 THEN 1 ELSE 0]

\* a successful call on three volumes with smoothing on, where one voxel is
\* foreground in the last volume only and another is background in all
C1_Witness ==
    /\ Returned /\ Len(args) = 3 /\ sigma > 0
    /\ \E p, q \in ArgVoxels :
         /\ args[1].lab[p] = 0 /\ args[2].lab[p] = 0 /\ args[3].lab[p] > 0
         /\ detection[p] = 1
         /\ detection[q] = 0

\* C2: with sigma = 0 the contour value at each voxel is k / N, where N is the
\* number of label volumes and k the number of volumes whose label at the
\* voxel differs from the label of a face-adjacent neighbour.
C2_ContourIsMeanOfBoundaries ==
    (Returned /\ sigma = 0) =>
        \A p \in ArgVoxels :
            contours.num[p] * Len(args) =
                Cardinality({ i \in 1..Len(args) : OnBoundary(args[i], p) }) * contours.den

\* three volumes, sigma = 0, and a voxel that only one of them marks as a
\* boundary: its contour value is 1/3
C2_Witness ==
    /\ Returned /\ sigma = 0 /\ Len(args) = 3
    /\ \E p \in ArgVoxels :
         /\ Cardinality({ i \in 1..3 : OnBoundary(args[i], p) }) = 1
         /\ 3 * contours.num[p] = contours.den

\* the voxels of the 2x2 square of the (4,4) example, and the voxels where the
\* label differs from a face-adjacent neighbour inside and outside the square
SquareVoxels == { p \in Voxels(<<1, 4, 4>>) : p[2] <= 2 /\ p[3] <= 2 }
SquareInnerEdge == { <<1, 1, 2>>, <<1, 2, 1>>, <<1, 2, 2>> }
SquareOuterEdge == { <<1, 1, 3>>, <<1, 2, 3>>, <<1, 3, 1>>, <<1, 3, 2>> }

\* the call of the example: the square combined with itself, sigma = 0
SquareTwice == Returned /\ sigma = 0 /\ args = <<Square, Square>>

C4_OrderInvariance ==
    Returned =>
        \A i, j \in 1..Len(args) :
            i < j =>
                /\ DetectionMap(Swapped(args, i, j)) = detection
                /\ ContourMap(Swapped(args, i, j), sigma) = contours

\* three volumes that differ pairwise in their masks, smoothing on
C4_Witness ==
    /\ Returned /\ Len(args) = 3 /\ sigma > 0
    /\ Foreground(args[1]) # Foreground(args[2])
    /\ Foreground(args[2]) # Foreground(args[3])
    /\ Foreground(args[1]) # Foreground(args[3])
    /\ BoundaryMask(args[1]) # BoundaryMask(args[3])

\* C5: combining label volumes that do not all have the same shape fails with
\* a shape-mismatch error and the notebook gets no maps from the call: its
\* detection and contours are not assigned.
C5_ShapeMismatchFails ==
    [][(pc = "loop" /\ todo = 0 /\ ~SameShape(all_labels)) =>
          /\ raised' = "ShapeMismatch"
          /\ pc' = "failed"
          /\ args' = all_labels
          /\ detection' = detection
          /\ contours' = contours]_vars

\* the (5,5) volume combined with the (5,6) volume has failed; the maps are
\* still those of the (5,6) volume alone
C5_Witness ==
    /\ args = <<Zero55, Zero56>>
    /\ raised = "ShapeMismatch" /\ pc = "failed"
    /\ DOMAIN detection = Voxels(<<1, 5, 6>>)

\* C6: with a negative sigma every call on same-shaped label volumes fails with
\* an invalid-argument error and no maps; sigma = 0 is accepted and the
\* contours are then the unsmoothed boundary masks.
C6_NegativeSigmaFails ==
    /\ (args # <<>> /\ sigma < 0 /\ SameShape(args)) =>
          /\ raised = "InvalidArgument"
          /\ pc = "failed"
          /\ detection = NoMap
          /\ contours = NoMap
    /\ (args # <<>> /\ sigma = 0 /\ SameShape(args)) =>
          /\ raised = "none"
          /\ contours.den = Len(args)
          /\ \A p \in ArgVoxels :
               contours.num[p] =
                   Cardinality({ i \in 1..Len(args) : OnBoundary(args[i], p) })

\* a call with sigma = -1 on a volume with an object has failed
C6_Witness ==
    /\ sigma < 0 /\ raised = "InvalidArgument" /\ pc = "failed"
    /\ Len(args) = 1 /\ \E p \in ArgVoxels : args[1].lab[p] > 0

\* C8: a call of labels_to_edges, successful or failing, or of track on the
\* labels leaves every collected label volume as it was, and on success both
\* maps of labels_to_edges have exactly the shape of the inputs.
C8_InputsUntouched ==
    [][(pc = "edges" \/ (pc = "loop" /\ todo = 0)) =>
          /\ all_labels' = all_labels
          /\ cellpose_labels' = cellpose_labels
          /\ (raised' = "none" /\ (pc = "loop" \/ notebook = "edges")) =>
               /\ DOMAIN detection' = Voxels(args'[1].shape)
               /\ DOMAIN contours'.num = Voxels(args'[1].shape)]_vars

\* all the collected two-frame volumes were combined with success, after the
\* call on the last of them alone
C8_Witness ==
    /\ pc = "done" /\ raised = "none" /\ args = all_labels /\ Len(args) >= 2
    /\ args[1].shape[1] = 2
    /\ cellpose_labels = all_labels[Len(all_labels)]

\* C9: every detection value is 0 or 1, whatever sigma is, and every contour
\* value lies in [0, 1].
C9_ValueRanges ==
    Returned =>
        /\ contours.den > 0
        /\ \A p \in ArgVoxels :
             /\ detection[p] \in {0, 1}
             /\ 0 <= contours.num[p]
             /\ contours.num[p] <= contours.den

\* smoothing on, several volumes: a detected voxel, a contour value strictly
\* between 0 and 1, and a contour value of 0
C9_Witness ==
    /\ Returned /\ sigma > 0 /\ Len(args) >= 2
    /\ \E p, q \in ArgVoxels :
         /\ detection[p] = 1
         /\ 0 < contours.num[p] /\ contours.num[p] < contours.den
         /\ contours.num[q] = 0

\* C10: appending one more label volume never decreases the detection map at
\* any voxel: along the prefixes of the combined sequence, each detection map
\* is >= the one before, up to the returned map.
C10_DetectionMonotone ==
    Returned =>
        /\ detection = DetectionMap(SubSeq(args, 1, Len(args)))
        /\ \A k \in 1..(Len(args) - 1) : \A p \in ArgVoxels :
             DetectionMap(SubSeq(args, 1, k + 1))[p] >= DetectionMap(SubSeq(args, 1, k))[p]

\* a voxel detected by the first volume only stays detected after two more
\* volumes, and another voxel becomes detected with the last volume
C10_Witness ==
    /\ Returned /\ Len(args) = 3
    /\ \E p, q \in ArgVoxels :
         /\ args[1].lab[p] > 0 /\ args[2].lab[p] = 0 /\ args[3].lab[p] = 0
         /\ detection[p] = 1
         /\ args[1].lab[q] = 0 /\ args[2].lab[q] = 0 /\ args[3].lab[q] > 0
         /\ detection[q] = 1

\* every volume of the sequence is background at every voxel
AllBackground(labels) ==
    \A i \in 1..Len(labels) : \A p \in Voxels(labels[i].shape) : labels[i].lab[p] = 0

\* C11: when every label volume is entirely background, the call on
\* same-shaped volumes succeeds for every sigma >= 0 and both maps are 0 at
\* every voxel.
C11_AllBackgroundGivesZero ==
    (args # <<>> /\ SameShape(args) /\ AllBackground(args) /\ sigma >= 0) =>
        /\ raised = "none"
        /\ \A p \in ArgVoxels : detection[p] = 0 /\ contours.num[p] = 0
        /\ contours.den > 0

\* several empty volumes were combined with smoothing on
C11_Witness ==
    /\ Returned /\ sigma > 0 /\ Len(args) >= 2 /\ AllBackground(args)
    /\ \A p \in ArgVoxels : detection[p] = 0 /\ contours.num[p] = 0

\* frame t of a label volume, as a volume of one frame
FrameOf(v, t) ==
    Volume(<<1, v.shape[2], v.shape[3]>>,
           [p \in Voxels(<<1, v.shape[2], v.shape[3]>>) |-> v.lab[<<t, p[2], p[3]>>]])

\* all voxels of frame t of v carry the same label
UniformFrame(v, t) ==
    \A p, q \in Voxels(v.shape) : (p[1] = t /\ q[1] = t) => v.lab[p] = v.lab[q]

\* C13: both maps at frame t are the maps of frame t of the label volumes
\* taken alone, so they depend on no other frame; a frame on which no volume
\* has a spatial label transition has no contour, whatever the labels of the
\* frames before and after it are.
C13_FramesIndependent ==
    Returned =>
        \A t \in 1..args[1].shape[1] :
            LET cut == [i \in 1..Len(args) |-> FrameOf(args[i], t)]
            IN  /\ contours.den = ContourMap(cut, sigma).den
                /\ \A p \in Voxels(cut[1].shape) :
                     /\ detection[<<t, p[2], p[3]>>] = DetectionMap(cut)[p]
                     /\ contours.num[<<t, p[2], p[3]>>] = ContourMap(cut, sigma).num[p]
                /\ (\A i \in 1..Len(args) : UniformFrame(args[i], t)) =>
                     \A p \in ArgVoxels : p[1] = t => contours.num[p] = 0

\* two-frame volumes combined with smoothing on: frame 1 has an object and a
\* contour, frame 2 has other labels than frame 1 at the same place and
\* neither a contour nor, where the object vanished, a detection
C13_Witness ==
    /\ Returned /\ sigma > 0 /\ Len(args) >= 2
    /\ args[1] = Vanishing /\ args[2] = Vanishing
    /\ detection[<<1, 1, 1>>] = 1 /\ detection[<<2, 1, 1>>] = 0
    /\ contours.num[<<1, 1, 1>>] > 0 /\ contours.num[<<2, 1, 1>>] = 0

\* the tracking result of the loop's run on the labels of the i-th gamma
RunOfGamma(i) ==
    IF notebook = "multiple-labels"
    THEN [labels |-> all_labels[i], sigma |-> sigma]
    ELSE [detection |-> DetectionMap(<<all_labels[i]>>),
          edges |-> ContourMap(<<all_labels[i]>>, sigma)]

\* the tracking result of the run on the combined labels
CombinedRun ==
    [detection |-> DetectionMap(all_labels), edges |-> ContourMap(all_labels, sigma)]

\* C14: every export and score step reads the result of the latest track
\* call: the i-th entry of metrics is scored from the run on the labels of
\* the i-th gamma alone and carries that gamma, the last entry is scored from
\* the combined-labels run, and the final export of tracks and segments is
\* that of the combined-labels run.
C14_ScoresFollowRuns ==
    /\ pc \in {"loop", "layer", "done"} =>
         \A i \in 1..Len(all_labels) :
             /\ i <= Len(metrics)
             /\ metrics[i] = [run |-> RunOfGamma(i), gamma |-> i]
    /\ pc \in {"ctc", "score"} =>
         /\ db = RunOfGamma(Len(all_labels))
         /\ Len(metrics) = Len(all_labels) - 1
    /\ pc = "score" => ctc[Len(all_labels)] = db
    /\ pc \in {"ctc_all", "score_all", "layer", "done"} =>
         LET combined == CombinedRun
         IN  /\ db = combined
             /\ pc # "ctc_all" => ctc[0] = combined
             /\ pc \in {"layer", "done"} =>
                  /\ Len(metrics) = Len(all_labels) + 1
                  /\ metrics[Len(metrics)] = [run |-> combined]
             /\ pc = "done" => tracks_df = combined /\ segments = combined
    /\ pc \notin {"layer", "done"} => Len(metrics) <= Len(all_labels)

\* a finished run over three gammas whose label volumes differ: three scores
\* of three different runs, then the score and the export of the combined run,
\* which is none of the three
C14_Witness ==
    /\ pc = "done" /\ Len(all_labels) = 3 /\ Len(metrics) = 4
    /\ metrics[1].run # metrics[2].run
    /\ metrics[2].run # metrics[3].run
    /\ metrics[1].run # metrics[3].run
    /\ \A i \in 1..3 : metrics[i].gamma = i /\ metrics[i].run # metrics[4].run
    /\ tracks_df = metrics[4].run

====
